---- MODULE Spec2Model ----
(***************************************************************************)
(* Telemetry client (utils/ws_client.py, class WSClient): one producer     *)
(* thread calling send_json()/close(), the background worker thread        *)
(* (_worker_loop) and the receiver thread (_receive_loop), sharing the     *)
(* bounded queue, the socket handle self.ws, the flag self.connected and   *)
(* the handle lock self._lock.  Python attribute reads and writes are      *)
(* atomic; every step below is one shared-memory access or one blocking    *)
(* library call of the source.                                             *)
(*                                                                         *)
(* Session tracker (utils/work_timer.py, class WorkTimer): update() called *)
(* by the frame loop with a presence flag and an attention level, at times *)
(* read from time.time().                                                  *)
(***************************************************************************)
EXTENDS Integers, Sequences, FiniteSets, TLC

\* ---------------------------------------------------------------- constants
QueueMaxsize == 10
ping_interval == 20
base_reconnect_delay == 1
max_reconnect_delay == 10

\* Python's None as a queue entry and as the result of a dequeue; messages
\* are numbered 1, 2, ... in the order of their send_json calls.
NoneMsg == 0

\* config.get("attention_threshold", 50)
DefaultThreshold == 50

\* ------------------------------------------------------------------- bounds
\* Each specification below runs the same actions under its own bounds on
\* the inputs: serializable send_json() calls, successful
\* create_connection() calls, consecutive failed connect cycles, close()
\* calls, and the wall clock in seconds.  For the session tracker: update()
\* calls, the horizon of its clock, the longest gap between two calls, and
\* the resolution of its clock (time.time() is a float; the tracker's times
\* are counted in 1/TicksPerSecond s).
QSubmit == 11
QSockets == 2
QFails == 1
LSubmit == 3
LSockets == 2
LFails == 1
LTime == 40
BSubmit == 1
BSockets == 1
BFails == 6
SSubmit == 1
SSockets == 2
SFails == 1
SCloses == 2
OSubmit == 11
OFails == 3
OCloses == 2
PSubmit == 1
PSockets == 2
PFails == 1
PCloses == 1
VSubmit == 1
VSockets == 2
VFails == 2
VTime == 20
TUpdates == 3
TTime == 6
TGap == 7200
TicksPerSecond == 2
EUpdates == 2
ETime == 4
EBuilt == 1
CSubmit == 1
CSockets == 2
CFails == 1
CCloses == 1
USubmit == 1
USockets == 2
UFails == 1
UCloses == 1
UTime == 20

Min(a, b) == IF a <= b THEN a ELSE b

VARIABLES
    \* WSClient fields
    ws,               \* self.ws: 0 for None, else a socket id
    connected,        \* self.connected
    active_url,       \* self.active_url
    camera_enabled,   \* self.camera_enabled
    lock,             \* holder of self._lock
    queue,            \* self._queue
    stop_event,       \* self._stop_event
    last_ping_time,   \* self.last_ping_time
    \* worker thread
    wpc,              \* position of the worker in _worker_loop
    reconnect_delay,  \* local of _worker_loop
    msg,              \* local of _worker_loop
    wnew,             \* local ws of _try_connect
    wurl,             \* argument url of _try_connect
    \* receiver thread
    rpc,              \* position of the receiver in _receive_loop
    rws,              \* the handle recv() was called on
    lastRecv,         \* outcome of the latest recv(): a frame or a failure
    \* producer thread
    ppc,              \* position of the producer inside close()
    \* environment
    sock,             \* status of every socket created so far
    now,              \* time.time()
    \* history
    submitted,        \* serializable messages passed to send_json so far
    sends,            \* every send(m) called on a socket, in order: m if it
                      \* returned, -m if it raised
    pings,            \* pings sent
    lastDeq,          \* newest message id taken off the queue
    fails,            \* consecutive failed connect cycles
    lostBy,           \* who cleared self.connected last since the last install
    closes,           \* close() calls so far
    sendLog,          \* what the latest send_json call logged
    sinceStop,        \* calls the worker made since the stop event was set
    threads,          \* worker and receiver threads alive: started, not ended
    \* WorkTimer fields
    attention_threshold,   \* self.attention_threshold
    total_work_seconds,    \* self.total_work_seconds, in ticks
    total_break_seconds,   \* self.total_break_seconds, in ticks
    last_update_time,      \* self._last_update_time, in ticks
    state,                 \* self.state
    \* the tracker's environment and history
    wall,             \* time.time() as the tracker reads it, in ticks
    created,          \* the time the tracker was constructed
    updates,          \* update() calls on this tracker so far
    lastCall,         \* the time of the latest update() call
    lastInput,        \* << is_present, attention_level >> of the latest call
    inputs,           \* every << is_present, attention_level >> passed so far
    built,            \* trackers constructed to replace an earlier one
    reading           \* << accessor, value >> of the latest accessor call

vars == << ws, connected, active_url, camera_enabled, lock, queue, stop_event,
           last_ping_time, wpc, reconnect_delay, msg, wnew, wurl, rpc, rws,
           lastRecv, ppc, sock, now, submitted, sends, pings, lastDeq, fails, lostBy,
           closes, sendLog, sinceStop, threads, attention_threshold, total_work_seconds,
           total_break_seconds, last_update_time, state, wall, created,
           updates, lastCall, lastInput, inputs, built, reading >>

clientVars == << ws, connected, active_url, camera_enabled, lock, queue,
                 stop_event, last_ping_time >>
workerVars == << wpc, reconnect_delay, msg, wnew, wurl >>
recvVars == << rpc, rws, lastRecv >>
envVars == << sock, now >>
histVars == << submitted, sends, pings, lastDeq, fails, lostBy, closes,
              sendLog, sinceStop, threads >>
trackerVars == << attention_threshold, total_work_seconds,
                 total_break_seconds, last_update_time, state >>
timerVars == << trackerVars, wall, created, updates, lastCall, lastInput,
               inputs, built, reading >>

\* no call made yet
NoCalls == [tries |-> 0, pings |-> 0, sends |-> 0]

\* sinceStop after one more call of the kind `call`, counted while the stop
\* event is set
Called(call) ==
    IF stop_event THEN [sinceStop EXCEPT ![call] = @ + 1] ELSE sinceStop

\* threading.Thread(...).start(): one more thread of the kind is alive
ThreadStarted(kind) == [threads EXCEPT ![kind] = @ + 1]

\* the thread's loop function returns: one thread fewer is alive
ThreadEnded(kind) == [threads EXCEPT ![kind] = @ - 1]

\* ------------------------------------------------------------------ helpers
\* queue.Queue.full()
QueueFull(q) == Len(q) >= QueueMaxsize

\* queue.Queue.put_nowait on a queue that is not full
QueuePut(q, m) == Append(q, m)

\* a queue that hands out its newest entry first
QueueGet_Lifo(q) == [item |-> q[Len(q)], rest |-> SubSeq(q, 1, Len(q) - 1)]

\* queue.Queue.get on a queue that is not empty: the entry handed out and
\* the queue left behind
QueueGet(q) == [item |-> Head(q), rest |-> Tail(q)]

\* a close() that releases nothing
CloseSock_Leak(s, h) == s

\* socket status after close()
CloseSock(s, h) == [s EXCEPT ![h] = "closed"]

\* the operation (send, ping, recv) on handle h can succeed
Usable(h) == h # 0 /\ sock[h] = "open"

\* doubling without the cap
NextDelay_Uncapped(d) == d * 2

\* reconnect_delay = min(max, reconnect_delay * 2)
NextDelay(d) == Min(max_reconnect_delay, d * 2)

\* a strict comparison: a ping only after more than the interval
PingDue_Strict(t, last) == t - last > ping_interval

\* now - self.last_ping_time >= self.ping_interval
PingDue(t, last) == t - last >= ping_interval

\* --------------------------------------------------------------------- Init
\* WSClient.__init__, with the worker thread started and at its first line
ClientInit ==
    /\ ws = 0
    /\ connected = FALSE
    /\ active_url = "primary"
    /\ camera_enabled = TRUE
    /\ lock = "none"
    /\ queue = << >>
    /\ stop_event = FALSE
    /\ last_ping_time = 0
    /\ wpc = "loop"
    /\ reconnect_delay = base_reconnect_delay
    /\ msg = NoneMsg
    /\ wnew = 0
    /\ wurl = "primary"
    /\ rpc = "dead"
    /\ rws = 0
    /\ lastRecv = "none"
    /\ ppc = "idle"
    /\ sock = << >>
    /\ now = 0
    /\ submitted = 0
    /\ sends = << >>
    /\ pings = 0
    /\ lastDeq = 0
    /\ fails = 0
    /\ lostBy = "none"
    /\ closes = 0
    /\ sendLog = "none"
    /\ sinceStop = NoCalls
    /\ threads = [worker |-> 1, receiver |-> 0]

\* WorkTimer.__init__(attention_threshold), constructed at time 0
TrackerInit(threshold) ==
    /\ attention_threshold = threshold
    /\ total_work_seconds = 0
    /\ total_break_seconds = 0
    /\ wall = 0
    /\ last_update_time = wall
    /\ state = "IDLE"
    /\ created = wall
    /\ updates = 0
    /\ lastCall = wall
    /\ lastInput = << >>
    /\ inputs = {}
    /\ built = 0
    /\ reading = << >>

\* the client and the tracker as the application constructs them
Init == ClientInit /\ TrackerInit(DefaultThreshold)

\* ----------------------------------------------------------------- producer
\* a _start_worker that starts no thread once the stop event is set
StartWorker_Once ==
    UNCHANGED << stop_event, wpc, reconnect_delay, msg, fails, sinceStop,
                 threads >>

\* a _start_worker that does not ask whether a worker thread is alive
StartWorker_Unchecked ==
    /\ stop_event' = FALSE
    /\ wpc' = "loop"
    /\ reconnect_delay' = base_reconnect_delay
    /\ msg' = NoneMsg
    /\ fails' = 0
    /\ sinceStop' = NoCalls
    /\ threads' = ThreadStarted("worker")

\* _start_worker(): start a worker thread unless one is alive.  A started
\* thread runs _worker_loop from its first line.
StartWorker ==
    IF wpc = "dead"
    THEN /\ stop_event' = FALSE
         /\ wpc' = "loop"
         /\ reconnect_delay' = base_reconnect_delay
         /\ msg' = NoneMsg
         /\ fails' = 0
         /\ sinceStop' = NoCalls
         /\ threads' = ThreadStarted("worker")
    ELSE UNCHANGED << stop_event, wpc, reconnect_delay, msg, fails,
                      sinceStop, threads >>

\* a blocking put, queue.put(msg), waits for a free slot
PutReady_Blocking(q) == ~QueueFull(q)

\* what put_nowait waits for: nothing
PutReady(q) == TRUE

\* a queue that makes room by discarding its oldest entry
Enqueue_DropOldest(q, m) ==
    IF ~QueueFull(q) THEN QueuePut(q, m) ELSE QueuePut(Tail(q), m)

\* the queue after the try block of send_json for message m
Enqueue(q, m) == IF ~QueueFull(q) THEN QueuePut(q, m) ELSE q

\* what the try block of send_json logs: put_nowait is only reached when
\* full() was false, and the producer is the only thread that puts, so
\* queue.Full is never raised and the warning is never written
EnqueueLog(q) == "none"

\* a send_json that makes sure of the worker before it serializes
send_json_StartsWorker(serializable) ==
    /\ ppc = "idle"
    /\ StartWorker
    /\ IF ~serializable
       THEN /\ sendLog' = "error"
            /\ UNCHANGED << queue, submitted >>
       ELSE /\ submitted' = submitted + 1
            /\ PutReady(queue)
            /\ queue' = Enqueue(queue, submitted + 1)
            /\ sendLog' = EnqueueLog(queue)
    /\ UNCHANGED << ws, connected, active_url, camera_enabled, lock,
                    last_ping_time, wnew, wurl, recvVars, ppc, sock, now,
                    sends, pings, lastDeq, lostBy, closes >>
    /\ UNCHANGED timerVars

\* send_json(data); serializable = json.dumps(data) does not raise
send_json(serializable) ==
    /\ ppc = "idle"
    /\ IF ~serializable
       THEN /\ sendLog' = "error"
            /\ UNCHANGED << queue, submitted, stop_event, wpc, reconnect_delay,
                            msg, fails, sinceStop, threads >>
       ELSE /\ submitted' = submitted + 1
            /\ StartWorker
            /\ PutReady(queue)
            /\ queue' = Enqueue(queue, submitted + 1)
            /\ sendLog' = EnqueueLog(queue)
    /\ UNCHANGED << ws, connected, active_url, camera_enabled, lock,
                    last_ping_time, wnew, wurl, recvVars, ppc, sock, now,
                    sends, pings, lastDeq, lostBy, closes >>
    /\ UNCHANGED timerVars

\* connect()
connect ==
    /\ ppc = "idle"
    /\ StartWorker
    /\ UNCHANGED << ws, connected, active_url, camera_enabled, lock, queue,
                    last_ping_time, wnew, wurl, recvVars, ppc, sock, now,
                    submitted, sends, pings, lastDeq, lostBy, closes,
                    sendLog >>
    /\ UNCHANGED timerVars

\* close(): stop_event.set() and put_nowait(None), Full swallowed
close_begin ==
    /\ ppc = "idle"
    /\ closes' = closes + 1
    /\ stop_event' = TRUE
    /\ sinceStop' = IF stop_event THEN sinceStop ELSE NoCalls
    /\ queue' = IF QueueFull(queue) THEN queue ELSE QueuePut(queue, NoneMsg)
    /\ ppc' = "c_close"
    /\ UNCHANGED << ws, connected, active_url, camera_enabled, lock,
                    last_ping_time, workerVars, recvVars, envVars, submitted,
                    sends, pings, lastDeq, fails, lostBy, sendLog >>
    /\ UNCHANGED threads
    /\ UNCHANGED timerVars

\* _safe_close() called by thread `who` at position `at`: take the lock and
\* close the handle if there is one
SafeCloseTake(who) ==
    /\ lock = "none"
    /\ IF ws # 0
       THEN /\ sock' = CloseSock(sock, ws)
            /\ lock' = who
       ELSE UNCHANGED << sock, lock >>

\* a _safe_close that releases the lock with the handle still in place
SafeCloseNull_KeepHandle(who) ==
    /\ lock = who
    /\ ws' = ws
    /\ lock' = "none"

\* _safe_close(), second half: self.ws = None and release
SafeCloseNull(who) ==
    /\ lock = who
    /\ ws' = 0
    /\ lock' = "none"

close_safe ==
    /\ ppc = "c_close"
    /\ SafeCloseTake("main")
    /\ ppc' = IF ws # 0 THEN "c_null" ELSE "c_flag"
    /\ UNCHANGED << ws, connected, active_url, camera_enabled, queue,
                    stop_event, last_ping_time, workerVars, recvVars, now,
                    histVars >>
    /\ UNCHANGED timerVars

close_null ==
    /\ ppc = "c_null"
    /\ SafeCloseNull("main")
    /\ ppc' = "c_flag"
    /\ UNCHANGED << connected, active_url, camera_enabled, queue, stop_event,
                    last_ping_time, workerVars, recvVars, envVars, histVars >>
    /\ UNCHANGED timerVars

\* close(): self.connected = False
close_flag ==
    /\ ppc = "c_flag"
    /\ connected' = FALSE
    /\ lostBy' = "close"
    /\ ppc' = "idle"
    /\ UNCHANGED << ws, active_url, camera_enabled, lock, queue, stop_event,
                    last_ping_time, workerVars, recvVars, envVars, submitted,
                    sends, pings, lastDeq, fails, closes, sendLog >>
    /\ UNCHANGED sinceStop
    /\ UNCHANGED threads
    /\ UNCHANGED timerVars

\* ------------------------------------------------------------------- worker
\* a connect sequence that starts with the endpoint used last
FirstEndpoint_Sticky == active_url

\* _connect_sequence tries self.primary_url first
FirstEndpoint == "primary"

\* a loop that never looks at the stop event
w_loop_Deaf ==
    /\ wpc = "loop"
    /\ IF ~connected
       THEN wpc' = "try" /\ wurl' = FirstEndpoint
       ELSE wpc' = "get" /\ UNCHANGED wurl
    /\ UNCHANGED << clientVars, reconnect_delay, msg, wnew, recvVars, ppc,
                    envVars, histVars >>
    /\ UNCHANGED timerVars

\* while not self._stop_event.is_set(): if not self.connected: ...
w_loop ==
    /\ wpc = "loop"
    /\ IF stop_event
       THEN wpc' = "dead" /\ UNCHANGED wurl
       ELSE IF ~connected
            THEN wpc' = "try" /\ wurl' = FirstEndpoint
            ELSE wpc' = "get" /\ UNCHANGED wurl
    /\ threads' = IF stop_event THEN ThreadEnded("worker") ELSE threads
    /\ UNCHANGED << clientVars, reconnect_delay, msg, wnew, recvVars, ppc,
                    envVars, submitted, sends, pings, lastDeq, fails,
                    lostBy, closes, sendLog, sinceStop >>
    /\ UNCHANGED timerVars

\* a worker thread that ends when both endpoints have failed
AfterFailedTry_Fatal(u) == IF u = "primary" THEN "try" ELSE "dead"

\* where _connect_sequence goes after _try_connect(u) returned False
AfterFailedTry(u) == IF u = "primary" THEN "try" ELSE "sleep"

\* _try_connect(url): create_connection(url, timeout=5) returns a socket
\* (the endpoint is reachable)
w_try_ok ==
    /\ wpc = "try"
    /\ sock' = Append(sock, "open")
    /\ wnew' = Len(sock) + 1
    /\ wpc' = "tc_lock"
    /\ sinceStop' = Called("tries")
    /\ UNCHANGED << clientVars, reconnect_delay, msg, wurl, recvVars, ppc,
                    now, submitted, sends, pings, lastDeq, fails, lostBy,
                    closes, sendLog >>
    /\ UNCHANGED threads
    /\ UNCHANGED timerVars

\* _try_connect(url): create_connection raises (the endpoint is unreachable),
\* _try_connect returns False; _connect_sequence goes on to the backup, or
\* returns False
w_try_fail ==
    /\ wpc = "try"
    /\ wpc' = AfterFailedTry(wurl)
    /\ wurl' = "backup"
    /\ sinceStop' = Called("tries")
    /\ UNCHANGED << clientVars, reconnect_delay, msg, wnew, recvVars, ppc,
                    envVars, submitted, sends, pings, lastDeq, fails, lostBy,
                    closes, sendLog >>
    /\ UNCHANGED threads
    /\ UNCHANGED timerVars

\* time.sleep(reconnect_delay) begins; the worker sleeps for reconnect_delay
w_sleep ==
    /\ wpc = "sleep"
    /\ fails' = fails + 1
    /\ wpc' = "sleeping"
    /\ UNCHANGED << clientVars, reconnect_delay, msg, wnew, wurl, recvVars,
                    ppc, envVars, submitted, sends, pings, lastDeq, lostBy, closes,
                    sendLog >>
    /\ UNCHANGED sinceStop
    /\ UNCHANGED threads
    /\ UNCHANGED timerVars

\* a worker that gives up once a second cycle in a row has failed
AfterBackoff_GiveUp(d) == IF d > base_reconnect_delay THEN "dead" ELSE "loop"

\* after the sleep of length d: continue, back at the head of the loop
AfterBackoff(d) == "loop"

\* the sleep ends; reconnect_delay = min(max, reconnect_delay * 2); continue
w_wake ==
    /\ wpc = "sleeping"
    /\ reconnect_delay' = NextDelay(reconnect_delay)
    /\ wpc' = AfterBackoff(reconnect_delay)
    /\ UNCHANGED << clientVars, msg, wnew, wurl, recvVars, ppc, envVars,
                    histVars >>
    /\ UNCHANGED timerVars

\* _try_connect: with self._lock: close the old handle if there is one
w_tc_lock ==
    /\ wpc = "tc_lock"
    /\ lock = "none"
    /\ lock' = "worker"
    /\ sock' = IF ws # 0 THEN CloseSock(sock, ws) ELSE sock
    /\ wpc' = "tc_ws"
    /\ UNCHANGED << ws, connected, active_url, camera_enabled, queue,
                    stop_event, last_ping_time, reconnect_delay, msg, wnew,
                    wurl, recvVars, ppc, now, histVars >>
    /\ UNCHANGED timerVars

\* self.ws = ws
w_tc_ws ==
    /\ wpc = "tc_ws"
    /\ ws' = wnew
    /\ wpc' = "tc_conn"
    /\ UNCHANGED << connected, active_url, camera_enabled, lock, queue,
                    stop_event, last_ping_time, reconnect_delay, msg, wnew,
                    wurl, recvVars, ppc, envVars, histVars >>
    /\ UNCHANGED timerVars

\* self.connected = True
w_tc_conn ==
    /\ wpc = "tc_conn"
    /\ connected' = TRUE
    /\ lostBy' = "none"
    /\ wpc' = "tc_fin"
    /\ UNCHANGED << ws, active_url, camera_enabled, lock, queue, stop_event,
                    last_ping_time, reconnect_delay, msg, wnew, wurl, recvVars,
                    ppc, envVars, submitted, sends, pings, lastDeq, fails,
                    closes, sendLog >>
    /\ UNCHANGED sinceStop
    /\ UNCHANGED threads
    /\ UNCHANGED timerVars

\* an install that leaves self.active_url as it was
ActiveUrlAfterConnect_Stale(old, url) == old

\* self.active_url = url
ActiveUrlAfterConnect(old, url) == url

\* self.active_url = url; self.last_ping_time = time.time(); release the lock
w_tc_fin ==
    /\ wpc = "tc_fin"
    /\ active_url' = ActiveUrlAfterConnect(active_url, wurl)
    /\ last_ping_time' = now
    /\ lock' = "none"
    /\ wpc' = "tc_recv"
    /\ UNCHANGED << ws, connected, camera_enabled, queue, stop_event,
                    reconnect_delay, msg, wnew, wurl, recvVars, ppc, envVars,
                    histVars >>
    /\ UNCHANGED timerVars

\* _start_receiver(): start a receiver thread unless one is alive; return True
w_tc_recv ==
    /\ wpc = "tc_recv"
    /\ rpc' = IF rpc = "dead" THEN "loop" ELSE rpc
    /\ threads' = IF rpc = "dead" THEN ThreadStarted("receiver") ELSE threads
    /\ wpc' = "cycle_ok"
    /\ UNCHANGED << clientVars, reconnect_delay, msg, wnew, wurl, rws, lastRecv,
                    ppc, envVars, submitted, sends, pings, lastDeq, fails,
                    lostBy, closes, sendLog, sinceStop >>
    /\ UNCHANGED timerVars

\* _connect_sequence returned True: reconnect_delay = base
w_cycle_ok ==
    /\ wpc = "cycle_ok"
    /\ reconnect_delay' = base_reconnect_delay
    /\ fails' = 0
    /\ wnew' = 0
    /\ wpc' = "get"
    /\ UNCHANGED << clientVars, msg, wurl, recvVars, ppc, envVars, submitted,
                    sends, pings, lastDeq, lostBy, closes, sendLog >>
    /\ UNCHANGED sinceStop
    /\ UNCHANGED threads
    /\ UNCHANGED timerVars

\* msg = self._queue.get(timeout=0.1), None on queue.Empty
w_get ==
    /\ wpc = "get"
    /\ IF queue # << >>
       THEN /\ msg' = QueueGet(queue).item
            /\ queue' = QueueGet(queue).rest
            /\ lastDeq' = IF QueueGet(queue).item # NoneMsg
                          THEN QueueGet(queue).item ELSE lastDeq
       ELSE /\ msg' = NoneMsg
            /\ UNCHANGED << queue, lastDeq >>
    /\ wpc' = "ka"
    /\ UNCHANGED << ws, connected, active_url, camera_enabled, lock,
                    stop_event, last_ping_time, reconnect_delay, wnew, wurl,
                    recvVars, ppc, envVars, submitted, sends, pings, fails,
                    lostBy, closes, sendLog >>
    /\ UNCHANGED sinceStop
    /\ UNCHANGED threads
    /\ UNCHANGED timerVars

\* a worker that waits on the queue again without going through the head
\* of its loop
AfterKeepAlive_Spin(m) == IF m = NoneMsg THEN "get" ELSE "send"

\* after self._keep_alive(): if msg is None: continue, else self.ws.send(msg)
AfterKeepAlive(m) == IF m = NoneMsg THEN "loop" ELSE "send"

\* _keep_alive() pings: connected, a handle, and the interval has elapsed
KeepAliveDue == connected /\ ws # 0 /\ PingDue(now, last_ping_time)

\* _keep_alive(): nothing to do, or self.ws.ping() succeeds
w_keep_alive ==
    /\ wpc = "ka"
    /\ sinceStop' = IF KeepAliveDue THEN Called("pings") ELSE sinceStop
    /\ IF ~KeepAliveDue
       THEN /\ wpc' = AfterKeepAlive(msg)
            /\ UNCHANGED << last_ping_time, pings >>
       ELSE IF Usable(ws)
            THEN /\ pings' = pings + 1
                 /\ last_ping_time' = now
                 /\ wpc' = AfterKeepAlive(msg)
            ELSE /\ wpc' = "ka_close"
                 /\ UNCHANGED << last_ping_time, pings >>
    /\ UNCHANGED << ws, connected, active_url, camera_enabled, lock, queue,
                    stop_event, reconnect_delay, msg, wnew, wurl, recvVars, ppc,
                    envVars, submitted, sends, lastDeq, fails,
                    lostBy, closes, sendLog >>
    /\ UNCHANGED threads
    /\ UNCHANGED timerVars

\* _keep_alive(), except branch: self._safe_close()
w_ka_close ==
    /\ wpc = "ka_close"
    /\ SafeCloseTake("worker")
    /\ wpc' = IF ws # 0 THEN "ka_null" ELSE "ka_flag"
    /\ UNCHANGED << ws, connected, active_url, camera_enabled, queue,
                    stop_event, last_ping_time, reconnect_delay, msg, wnew,
                    wurl, recvVars, ppc, now, histVars >>
    /\ UNCHANGED timerVars

w_ka_null ==
    /\ wpc = "ka_null"
    /\ SafeCloseNull("worker")
    /\ wpc' = "ka_flag"
    /\ UNCHANGED << connected, active_url, camera_enabled, queue, stop_event,
                    last_ping_time, reconnect_delay, msg, wnew, wurl, recvVars,
                    ppc, envVars, histVars >>
    /\ UNCHANGED timerVars

\* _keep_alive(), except branch: self.connected = False
w_ka_flag ==
    /\ wpc = "ka_flag"
    /\ connected' = FALSE
    /\ lostBy' = "worker"
    /\ wpc' = AfterKeepAlive(msg)
    /\ UNCHANGED << ws, active_url, camera_enabled, lock, queue, stop_event,
                    last_ping_time, reconnect_delay, msg, wnew, wurl, recvVars,
                    ppc, envVars, submitted, sends, pings, lastDeq, fails,
                    closes, sendLog >>
    /\ UNCHANGED sinceStop
    /\ UNCHANGED threads
    /\ UNCHANGED timerVars

\* self.ws.send(msg): returns, or raises (no handle: AttributeError before
\* any socket is touched; closed or broken link: the send itself raises)
w_send ==
    /\ wpc = "send"
    /\ sends' = IF ws = 0 THEN sends
                ELSE IF Usable(ws) THEN Append(sends, msg)
                ELSE Append(sends, -msg)
    /\ sinceStop' = IF ws = 0 THEN sinceStop ELSE Called("sends")
    /\ wpc' = IF Usable(ws) THEN "loop" ELSE "ex_close"
    /\ msg' = IF Usable(ws) THEN NoneMsg ELSE msg
    /\ UNCHANGED << clientVars, reconnect_delay, wnew, wurl, recvVars, ppc,
                    envVars, submitted, pings, lastDeq, fails, lostBy, closes,
                    sendLog >>
    /\ UNCHANGED threads
    /\ UNCHANGED timerVars

\* _worker_loop, both except branches: self._safe_close()
w_ex_close ==
    /\ wpc = "ex_close"
    /\ SafeCloseTake("worker")
    /\ wpc' = IF ws # 0 THEN "ex_null" ELSE "ex_flag"
    /\ UNCHANGED << ws, connected, active_url, camera_enabled, queue,
                    stop_event, last_ping_time, reconnect_delay, msg, wnew,
                    wurl, recvVars, ppc, now, histVars >>
    /\ UNCHANGED timerVars

w_ex_null ==
    /\ wpc = "ex_null"
    /\ SafeCloseNull("worker")
    /\ wpc' = "ex_flag"
    /\ UNCHANGED << connected, active_url, camera_enabled, queue, stop_event,
                    last_ping_time, reconnect_delay, msg, wnew, wurl, recvVars,
                    ppc, envVars, histVars >>
    /\ UNCHANGED timerVars

\* a handler that empties the queue when the link is lost
QueueAfterFailure_Flush(q, m) == << >>

\* a handler that puts the message in flight back at the head of the queue
QueueAfterFailure_Requeue(q, m) == IF m = NoneMsg THEN q ELSE << m >> \o q

\* the queue after an except branch of _worker_loop handled the failure of
\* sending m: the branches do not touch the queue
QueueAfterFailure(q, m) == q

\* _worker_loop, both except branches: self.connected = False
w_ex_flag ==
    /\ wpc = "ex_flag"
    /\ connected' = FALSE
    /\ lostBy' = "worker"
    /\ queue' = QueueAfterFailure(queue, msg)
    /\ msg' = NoneMsg
    /\ wpc' = "loop"
    /\ UNCHANGED << ws, active_url, camera_enabled, lock, stop_event,
                    last_ping_time, reconnect_delay, wnew, wurl, recvVars,
                    ppc, envVars, submitted, sends, pings, lastDeq, fails,
                    closes, sendLog >>
    /\ UNCHANGED sinceStop
    /\ UNCHANGED threads
    /\ UNCHANGED timerVars

\* ----------------------------------------------------------------- receiver
Inbound == {"stop", "start", "empty", "nonjson", "nonobject", "othertype",
            "otheraction"}

\* a handler that flips the flag on every command
ApplyInbound_Toggle(kind, cam) ==
    IF kind \in {"stop", "start"} THEN ~cam ELSE cam

\* a handler that takes every action other than stop for a start
ApplyInbound_ElseStart(kind, cam) ==
    IF kind = "stop" THEN FALSE
    ELSE IF kind \in {"start", "otheraction"} THEN TRUE
    ELSE cam

\* self.camera_enabled after the receiver handled one inbound frame
ApplyInbound(kind, cam) ==
    IF kind = "stop" THEN FALSE
    ELSE IF kind = "start" THEN TRUE
    ELSE cam

\* while not stop: if not self.connected or self.ws is None: sleep(0.2), else
\* call self.ws.recv()
r_loop ==
    /\ rpc = "loop"
    /\ IF stop_event
       THEN rpc' = "dead" /\ UNCHANGED rws
       ELSE IF ~connected \/ ws = 0
            THEN UNCHANGED << rpc, rws >>
            ELSE rpc' = "recv" /\ rws' = ws
    /\ UNCHANGED lastRecv
    /\ threads' = IF stop_event THEN ThreadEnded("receiver") ELSE threads
    /\ UNCHANGED << clientVars, workerVars, ppc, envVars, submitted, sends, pings, lastDeq, fails,
                    lostBy, closes, sendLog, sinceStop >>
    /\ UNCHANGED timerVars

\* recv() returns a frame
r_recv_frame(kind) ==
    /\ rpc = "recv"
    /\ Usable(rws)
    /\ camera_enabled' = ApplyInbound(kind, camera_enabled)
    /\ rpc' = "loop"
    /\ rws' = 0
    /\ lastRecv' = kind
    /\ UNCHANGED << ws, connected, active_url, lock, queue, stop_event,
                    last_ping_time, workerVars, ppc, envVars, histVars >>
    /\ UNCHANGED timerVars

\* recv() raises WebSocketConnectionClosedException: self.connected = False
r_recv_closed ==
    /\ rpc = "recv"
    /\ ~Usable(rws)
    /\ connected' = FALSE
    /\ lostBy' = "receiver"
    /\ rpc' = "loop"
    /\ rws' = 0
    /\ lastRecv' = "closed"
    /\ UNCHANGED << ws, active_url, camera_enabled, lock, queue, stop_event,
                    last_ping_time, workerVars, ppc, envVars, submitted, sends,
                     pings, lastDeq, fails, closes, sendLog >>
    /\ UNCHANGED sinceStop
    /\ UNCHANGED threads
    /\ UNCHANGED timerVars

\* the exception recv() raises other than WebSocketConnectionClosedException:
\* the socket timeout on a link that is up, a reset or an OS error on one
\* that is not
RecvError(h) == IF Usable(h) THEN "timeout" ELSE "reset"

\* recv() raises anything else: a warning is logged, nothing changes
r_recv_error ==
    /\ rpc = "recv"
    /\ rpc' = "loop"
    /\ rws' = 0
    /\ lastRecv' = RecvError(rws)
    /\ UNCHANGED << clientVars, workerVars, ppc, envVars, histVars >>
    /\ UNCHANGED timerVars

\* -------------------------------------------------------------- environment
TickStep == ping_interval \div 2

\* the peer or the network drops the link of socket h
Break(h) ==
    /\ h \in 1..Len(sock)
    /\ sock[h] = "open"
    /\ sock' = [sock EXCEPT ![h] = "broken"]
    /\ UNCHANGED << clientVars, workerVars, recvVars, ppc, now, histVars >>
    /\ UNCHANGED timerVars

\* time passes
Tick ==
    /\ now' = now + TickStep
    /\ UNCHANGED << clientVars, workerVars, recvVars, ppc, sock, histVars >>
    /\ UNCHANGED timerVars

\* ------------------------------------------------------------------ tracker
\* thresholds a tracker is constructed with, and attention levels passed to
\* update (compute_attention returns a value in 0..100)
Thresholds == {0, DefaultThreshold, 100}
AttentionLevels == {0, 49, 50, 51, 100}

\* a tracker that never takes the absent branch
Absent_Never(is_present) == FALSE

\* if not is_present
Absent(is_present) == ~is_present

\* a comparison that sends the threshold itself to BREAK
Distracted_Inclusive(attention_level, threshold) == attention_level <= threshold

\* a tracker for which no sample is attentive enough
Distracted_Always(attention_level, threshold) == TRUE

\* if attention_level < self.attention_threshold
Distracted(attention_level, threshold) == attention_level < threshold

\* break time that is not counted
CreditBreak_Dropped(total, delta) == total

\* self.total_break_seconds += delta
CreditBreak(total, delta) == total + delta

\* work time credited one second per call at most
CreditWork_Capped(total, delta) == total + Min(delta, TicksPerSecond)

\* self.total_work_seconds += delta
CreditWork(total, delta) == total + delta

\* WorkTimer.update(is_present, attention_level)
update(is_present, attention_level) ==
    LET delta == wall - last_update_time IN
    /\ last_update_time' = wall
    /\ IF Absent(is_present)
       THEN /\ state' = "BREAK"
            /\ total_break_seconds' = CreditBreak(total_break_seconds, delta)
            /\ UNCHANGED total_work_seconds
       ELSE IF Distracted(attention_level, attention_threshold)
            THEN /\ state' = "BREAK"
                 /\ total_break_seconds' =
                        CreditBreak(total_break_seconds, delta)
                 /\ UNCHANGED total_work_seconds
            ELSE /\ state' = "WORK"
                 /\ total_work_seconds' = CreditWork(total_work_seconds, delta)
                 /\ UNCHANGED total_break_seconds
    /\ updates' = updates + 1
    /\ lastCall' = wall
    /\ lastInput' = << is_present, attention_level >>
    /\ inputs' = inputs \cup {<< is_present, attention_level >>}
    /\ UNCHANGED << attention_threshold, wall, created, built, reading >>
    /\ UNCHANGED << clientVars, workerVars, recvVars, ppc, envVars, histVars >>

\* int(x) of a float x held in ticks: whole seconds, truncated toward zero
IntSeconds(x) ==
    IF x >= 0 THEN x \div TicksPerSecond ELSE -((-x) \div TicksPerSecond)

\* get_current_session_duration()
get_current_session_duration == IntSeconds(total_work_seconds)

\* get_total_work_seconds()
get_total_work_seconds == IntSeconds(total_work_seconds)

\* get_total_break_seconds()
get_total_break_seconds == IntSeconds(total_break_seconds)

\* get_state()
get_state == state

Accessors == {"current_session_duration", "total_work_seconds",
              "total_break_seconds", "state"}

\* what accessor `which` returns
Returned(which) ==
    CASE which = "current_session_duration" -> get_current_session_duration
      [] which = "total_work_seconds" -> get_total_work_seconds
      [] which = "total_break_seconds" -> get_total_break_seconds
      [] which = "state" -> get_state

\* an accessor that starts a new session when the session duration is read
AfterRead_Restart(which, total) ==
    IF which = "current_session_duration" THEN 0 ELSE total

\* self.total_work_seconds after a call of accessor `which`: the accessors
\* only return
AfterRead(which, total) == total

\* the frame loop calls an accessor of the tracker
read(which) ==
    /\ reading' = << which, Returned(which) >>
    /\ total_work_seconds' = AfterRead(which, total_work_seconds)
    /\ UNCHANGED << attention_threshold, total_break_seconds,
                    last_update_time, state, wall, created, updates, lastCall,
                    lastInput, inputs, built >>
    /\ UNCHANGED << clientVars, workerVars, recvVars, ppc, envVars, histVars >>

\* start_monitoring(): self.work_timer = WorkTimer(self.attention_threshold),
\* a new tracker with the threshold of the old one
start_monitoring ==
    /\ attention_threshold' = attention_threshold
    /\ total_work_seconds' = 0
    /\ total_break_seconds' = 0
    /\ last_update_time' = wall
    /\ state' = "IDLE"
    /\ created' = wall
    /\ updates' = 0
    /\ lastCall' = wall
    /\ lastInput' = << >>
    /\ inputs' = {}
    /\ built' = built + 1
    /\ UNCHANGED << wall, reading >>
    /\ UNCHANGED << clientVars, workerVars, recvVars, ppc, envVars, histVars >>

\* time passes between two calls of the tracker
Elapse(d) ==
    /\ wall' = wall + d
    /\ UNCHANGED << trackerVars, created, updates, lastCall, lastInput,
                    inputs, built, reading >>
    /\ UNCHANGED << clientVars, workerVars, recvVars, ppc, envVars, histVars >>

\* --------------------------------------------------------------------- Next
\* The threads and the environment, each with its inputs bounded.

\* the producer submits at most n serializable messages
Producer(n) ==
    submitted < n /\ send_json(TRUE)

\* the producer submits a payload json.dumps rejects
BadPayload ==
    sendLog # "error" /\ send_json(FALSE)

\* the producer submits at most n serializable messages, all of them before
\* its first close()
ProducerUntilClose(n) ==
    closes = 0 /\ submitted < n /\ send_json(TRUE)

\* the producer calls close() at most n times, and nothing after it
CloseOnly(n) ==
    \/ closes < n /\ close_begin
    \/ close_safe
    \/ close_null
    \/ close_flag

\* a close() call under way goes on
CloseRuns ==
    \/ close_safe
    \/ close_null
    \/ close_flag

\* the producer calls close() at most n times, and connect(); there is no
\* socket for close() to close
ShutdownOffline(n) ==
    \/ closes < n /\ close_begin
    \/ close_safe
    \/ close_flag
    \/ connect

\* the producer calls close() at most n times, and connect()
Shutdown(n) ==
    \/ closes < n /\ close_begin
    \/ close_safe
    \/ close_null
    \/ close_flag
    \/ connect

\* the worker, with at most nSockets successful connects and at most nFails
\* consecutive failed connect cycles
Worker(nSockets, nFails) ==
    \/ w_loop
    \/ Len(sock) < nSockets /\ w_try_ok
    \/ (wurl = "backup" => fails < nFails) /\ w_try_fail
    \/ w_sleep
    \/ w_wake
    \/ w_tc_lock
    \/ w_tc_ws
    \/ w_tc_conn
    \/ w_tc_fin
    \/ w_tc_recv
    \/ w_cycle_ok
    \/ w_get
    \/ w_keep_alive
    \/ w_send
    \/ w_ex_close
    \/ w_ex_null
    \/ w_ex_flag

\* the worker, every connect cycle it starts running to its end: it starts a
\* cycle only while fewer than nSockets sockets were created, and after
\* nFails consecutive failed cycles an endpoint is reachable
WorkerCycles(nSockets, nFails) ==
    \/ (stop_event \/ connected \/ Len(sock) < nSockets) /\ w_loop
    \/ w_try_ok
    \/ (wurl = "backup" => fails < nFails) /\ w_try_fail
    \/ w_sleep
    \/ w_wake
    \/ w_tc_lock
    \/ w_tc_ws
    \/ w_tc_conn
    \/ w_tc_fin
    \/ w_tc_recv
    \/ w_cycle_ok
    \/ w_get
    \/ w_keep_alive
    \/ w_send
    \/ w_ex_close
    \/ w_ex_null
    \/ w_ex_flag

\* the worker while both endpoints are unreachable (create_connection raises
\* on every attempt), with at most nFails consecutive failed connect cycles
WorkerOffline(nFails) ==
    \/ w_loop
    \/ (wurl = "backup" => fails < nFails) /\ w_try_fail
    \/ w_sleep
    \/ w_wake

\* the except branch of _keep_alive, reached once a ping is due
PingFailure ==
    \/ w_ka_close
    \/ w_ka_null
    \/ w_ka_flag

\* the receiver, with inbound frames of the kinds `inbound`
Receiver(inbound) ==
    \/ r_loop
    \/ \E k \in inbound : r_recv_frame(k)
    \/ r_recv_closed
    \/ r_recv_error

\* links break
Network ==
    \E h \in 1..Len(sock) : Break(h)

\* the clock runs up to tMax
Clock(tMax) ==
    now + TickStep <= tMax /\ Tick

\* The outbound queue under load: enough submissions to fill the queue, over
\* a time horizon shorter than the ping interval, without shutdown.
NextQueue ==
    \/ Producer(QSubmit)
    \/ Worker(QSockets, QFails)
    \/ Receiver({"empty"})
    \/ Network
SpecQueue == Init /\ [][NextQueue]_vars

\* The link: connecting, sending, keepalive, failures and reconnects, with
\* remote commands arriving, without shutdown.
NextLink ==
    \/ Producer(LSubmit)
    \/ Worker(LSockets, LFails)
    \/ PingFailure
    \/ Receiver({"stop", "start", "empty"})
    \/ Network
    \/ Clock(LTime)
SpecLink == Init /\ [][NextLink]_vars

\* Backoff: long runs of failed connect cycles.
NextBackoff ==
    \/ Producer(BSubmit)
    \/ Worker(BSockets, BFails)
    \/ Receiver({"empty"})
    \/ Network
SpecBackoff == Init /\ [][NextBackoff]_vars

\* Shutdown: close() and connect() racing with the worker and the receiver.
NextShutdown ==
    \/ Producer(SSubmit)
    \/ Shutdown(SCloses)
    \/ Worker(SSockets, SFails)
    \/ Receiver({"empty"})
    \/ Network
SpecShutdown == Init /\ [][NextShutdown]_vars

\* Both endpoints unreachable: the producer keeps submitting, and calls
\* close() and connect(), while every connection attempt fails.
NextOffline ==
    \/ Producer(OSubmit)
    \/ ShutdownOffline(OCloses)
    \/ WorkerOffline(OFails)
SpecOffline == Init /\ [][NextOffline]_vars

\* Stopping: close() with no call after it, the threads scheduled fairly.
\* Every step of the worker and of the receiver ends in bounded time
\* (create_connection and recv have a 5 s timeout, the queue get 0.1 s, the
\* sleep at most max_reconnect_delay), and so does every step of close().
NextStop ==
    \/ ProducerUntilClose(PSubmit)
    \/ CloseOnly(PCloses)
    \/ WorkerCycles(PSockets, PFails)
    \/ Receiver({"empty"})
    \/ Network
SpecStop ==
    /\ Init
    /\ [][NextStop]_vars
    /\ WF_vars(WorkerCycles(PSockets, PFails))
    /\ WF_vars(Receiver({"empty"}))
    /\ WF_vars(CloseRuns)

\* Recovery: no close(); links break, sends and pings fail, connect cycles
\* fail, and after VFails failed cycles in a row an endpoint is reachable;
\* the worker is scheduled fairly.
NextRecover ==
    \/ Producer(VSubmit)
    \/ WorkerCycles(VSockets, VFails)
    \/ PingFailure
    \/ Receiver({"empty"})
    \/ Network
    \/ Clock(VTime)
SpecRecover ==
    /\ Init
    /\ [][NextRecover]_vars
    /\ WF_vars(WorkerCycles(VSockets, VFails) \/ PingFailure)

\* the frame loop calls update at most n times, with any sample
Tracker(n) ==
    updates < n /\ \E p \in BOOLEAN, a \in AttentionLevels : update(p, a)

\* the tracker's clock runs a tick at a time, or jumps by a long gap (the
\* process was suspended), until it has passed tMax
TrackerClock(tMax) ==
    wall < tMax /\ \E d \in {1, TGap} : Elapse(d)

\* the frame loop calls update at most n times, with samples around the
\* threshold
TrackerNearThreshold(n) ==
    /\ updates < n
    /\ \E p \in BOOLEAN, a \in {DefaultThreshold - 1, DefaultThreshold} :
          update(p, a)

\* the tracker's clock runs up to tMax, a tick at a time
TrackerTick(tMax) ==
    wall < tMax /\ Elapse(1)

\* the system clock is set back by a tick (time.time() is the wall clock),
\* not past the time the program started
TrackerClockBack ==
    wall > 0 /\ Elapse(-1)

\* the frame loop reads the tracker after an update
TrackerRead ==
    updates > 0 /\ \E which \in Accessors : read(which)

\* the operator restarts monitoring at most n times
TrackerRestart(n) ==
    built < n /\ start_monitoring

\* The session tracker: a tracker constructed with any threshold, fed any
\* samples at any times.
InitTimer == ClientInit /\ \E th \in Thresholds : TrackerInit(th)
NextTimer ==
    \/ Tracker(TUpdates)
    \/ TrackerClock(TTime)
SpecTimer == InitTimer /\ [][NextTimer]_vars

\* The session: the tracker of the application, read by the frame loop
\* after its updates and replaced when the operator restarts monitoring,
\* under a wall clock that can be set back.
NextSession ==
    \/ TrackerNearThreshold(EUpdates)
    \/ TrackerTick(ETime)
    \/ TrackerClockBack
    \/ TrackerRead
    \/ TrackerRestart(EBuilt)
SpecSession == Init /\ [][NextSession]_vars

\* Remote control: inbound frames of every shape arriving while the producer
\* submits and calls close() and connect(), and links break and are rebuilt.
NextControl ==
    \/ Producer(CSubmit)
    \/ Shutdown(CCloses)
    \/ Worker(CSockets, CFails)
    \/ Receiver(Inbound)
    \/ Network
SpecControl == Init /\ [][NextControl]_vars

\* The life of a client: submissions, payloads that cannot be serialized and
\* close(), in any order, with the worker connecting, pinging and sending.
NextLifecycle ==
    \/ Producer(USubmit)
    \/ BadPayload
    \/ CloseOnly(UCloses)
    \/ Worker(USockets, UFails)
    \/ PingFailure
    \/ Receiver({"empty"})
    \/ Network
    \/ Clock(UTime)
SpecLifecycle == Init /\ [][NextLifecycle]_vars

\* ------------------------------------------------------------------- claims
Abs(x) == IF x < 0 THEN -x ELSE x
StrictlyIncreasing(q) == \A i, j \in 1..Len(q) : i < j => q[i] < q[j]
\* the messages the worker sent on the wire, in order
Wire == SelectSeq(sends, LAMBDA x : x > 0)
\* the messages waiting in the queue
Queued == {queue[i] : i \in 1..Len(queue)} \ {NoneMsg}

\* C1: the queue never holds more than QueueMaxsize entries; a send_json that
\* finds the queue full leaves the queue as it is (the new message is the one
\* discarded), and one that finds room appends the new message at the tail.
C1_BoundedDropNewest ==
    [][/\ Len(queue') <= QueueMaxsize
       /\ submitted' # submitted =>
            queue' = IF QueueFull(queue) THEN queue
                     ELSE Append(queue, submitted')]_vars

\* C1 witness: the queue is full with messages 1..10 and message 11 was
\* submitted and discarded.
C1_Witness ==
    /\ Len(queue) = QueueMaxsize
    /\ queue[1] = 1
    /\ queue[QueueMaxsize] = QueueMaxsize
    /\ submitted = QueueMaxsize + 1

\* C4: send_json never waits: whenever the producer is not inside another
\* call, a send_json step is possible (with the worker connecting, sleeping,
\* sending or holding the handle lock, the queue full or not), and that step
\* touches neither the socket handle, nor any socket, nor the lock, nor the
\* connection flag.
C4_SubmitNeverWaits ==
    ppc = "idle" =>
        ENABLED (send_json(TRUE) /\ UNCHANGED << ws, sock, lock, connected >>)

\* C4 witness: a message was submitted and discarded on a full queue, and
\* the worker holds the handle lock.
C4_Witness ==
    /\ Len(queue) = QueueMaxsize
    /\ submitted = QueueMaxsize + 1
    /\ lock = "worker"

\* C2: the messages sent on the wire are messages that were submitted, in
\* the order of their submission (message ids are submission numbers).
C2_FifoDelivery ==
    /\ StrictlyIncreasing(Wire)
    /\ \A i \in 1..Len(Wire) : Wire[i] \in 1..submitted

\* C2 witness: message 1 was sent on the first link, message 2 was lost with
\* it, and message 3 was sent on the second link.
C2_Witness ==
    /\ sends = << 1, -2, 3 >>
    /\ ws = 2

\* C3: no message is passed to a socket send twice, and a message taken off
\* the queue is never on the queue again, whatever failed while it was in
\* flight.
C3_AtMostOnce ==
    /\ \A i, j \in 1..Len(sends) : i # j => Abs(sends[i]) # Abs(sends[j])
    /\ \A m \in Queued : m > lastDeq
    /\ msg \in {NoneMsg, lastDeq}

\* C3 witness: the send of message 1 failed, the worker reconnected, and
\* message 2 is in flight when a ping fails.
C3_Witness ==
    /\ sends = << -1 >>
    /\ wpc = "ka_flag"
    /\ msg = 2

\* C5 as stated: a connect cycle whose primary attempt failed and whose
\* backup attempt succeeded ends (_connect_sequence has returned True) with
\* connected true and the backup as the active endpoint.
C5_Original ==
    (wpc = "cycle_ok" /\ wurl = "backup") =>
        (connected /\ active_url = "backup")

\* C5 amended: such a cycle ends with the backup as the active endpoint and
\* the new socket installed by the worker, and with connected true unless the
\* receiver (the new link already failed) or close() has cleared the flag
\* since the worker set it.
C5_BackupWithinOneCycle ==
    (wpc = "cycle_ok" /\ wurl = "backup") =>
        /\ active_url = "backup"
        /\ connected \/ lostBy \in {"receiver", "close"}

\* C5 witness: the first cycle failed on the primary and connected to the
\* backup, with no backoff sleep before it.
C5_Witness ==
    /\ wpc = "cycle_ok"
    /\ wurl = "backup"
    /\ fails = 0
    /\ connected
    /\ active_url = "backup"
    /\ ws = wnew
    /\ Usable(ws)

\* C6: every connect cycle starts with the primary; the backup is attempted
\* only as the step after a failed primary attempt of the same cycle; a cycle
\* whose primary attempt succeeded ends connected to the primary, whatever
\* the endpoint of the previous connection.
C6_PrimaryPreferred ==
    [][/\ (wpc # "try" /\ wpc' = "try") => wurl' = "primary"
       /\ (wurl # "backup" /\ wurl' = "backup") =>
             (wpc = "try" /\ wpc' = "try" /\ sock' = sock)
       /\ (wpc = "try" /\ wurl = "primary" /\ wpc' = "tc_lock") =>
             wurl' = "primary"
       /\ (wpc' = "cycle_ok" /\ wurl' = "primary") =>
             active_url' = "primary"]_vars

\* C6 witness: the previous connection was to the backup, and the cycle now
\* ending has connected to the primary.
C6_Witness ==
    /\ wpc = "tc_fin"
    /\ wurl = "primary"
    /\ active_url = "backup"
    /\ Len(sock) = 2

\* C7: while the worker sleeps after the k-th consecutive failed connect
\* cycle, the sleep lasts min(10, 2^(k-1)) seconds, between 1 and 10; k
\* restarts at 1 after a successful connect.
C7_BackoffSchedule ==
    wpc = "sleeping" =>
        /\ reconnect_delay = Min(10, 2^(fails - 1))
        /\ reconnect_delay >= 1
        /\ reconnect_delay <= 10

\* C7 witness: the sixth consecutive failure sleeps 10 seconds.
C7_Witness ==
    /\ wpc = "sleeping"
    /\ fails = 6
    /\ reconnect_delay = 10

\* C7 witness of the reset: a failure after a connection that followed
\* earlier failures sleeps the seed again.
C7_ResetReached ==
    /\ wpc = "sleeping"
    /\ fails = 1
    /\ Len(sock) = 1
    /\ sock[1] = "closed"

\* C8: when the handling of a failed send or ping ends, the handle is null
\* and every socket is closed, and the step that ends it leaves connected
\* false; while the handle is null the worker touches no socket (no send, no
\* ping); from the head of its loop, disconnected and not stopped, its step
\* is the start of a connect cycle with the primary; the worker thread never
\* ends unless the stop event is set.
C8_FailureTearsDown ==
    [][/\ (wpc \in {"ex_flag", "ka_flag"} /\ wpc' # wpc) =>
             /\ ws = 0
             /\ \A h \in 1..Len(sock) : sock[h] = "closed"
             /\ ~connected'
             /\ ws' = 0
       /\ (ws = 0 /\ wpc' # wpc) => (sends' = sends /\ pings' = pings)
       /\ (wpc = "loop" /\ wpc' # wpc /\ ~connected /\ ~stop_event) =>
             (wpc' = "try" /\ wurl' = "primary")
       /\ (wpc' = "dead" /\ wpc # "dead") => stop_event]_vars

\* C8 witness: the send of message 1 failed on the first socket, which is
\* now closed, and the worker has started a new cycle with the primary.
C8_Witness ==
    /\ sends = << -1 >>
    /\ wpc = "try"
    /\ wurl = "primary"
    /\ ~connected
    /\ ws = 0
    /\ sock = << "closed" >>

\* C9: at the keepalive step of an iteration, connected, with a handle, and
\* 20 s or more since last_ping_time, the worker pings, message or no
\* message: the ping succeeds and last_ping_time becomes now, or it fails and
\* the failure handling starts; the send of the iteration is reached only
\* from the keepalive step; the failure handling of a ping ends with the
\* handle null and connected false.
C9_KeepAlive ==
    [][/\ (/\ wpc = "ka"
           /\ wpc' # wpc
           /\ connected
           /\ ws # 0
           /\ now - last_ping_time >= 20) =>
             \/ (pings' = pings + 1 /\ last_ping_time' = now /\ sock[ws] = "open")
             \/ (wpc' = "ka_close" /\ pings' = pings /\ sock[ws] # "open")
       /\ (wpc' = "send" /\ wpc # "send") => wpc \in {"ka", "ka_flag"}
       /\ (wpc = "ka_flag" /\ wpc' # wpc) => (~connected' /\ ws' = 0)]_vars

\* C9 witness: exactly 20 s after the connection was established a ping was
\* sent with message 1 dequeued and not yet sent.
C9_Witness ==
    /\ pings = 1
    /\ last_ping_time = 20
    /\ now = 20
    /\ wpc = "send"
    /\ msg = 1
    /\ sends = << >>

\* C10: once close() has returned and the worker thread has ended, no socket
\* is open, the handle is null and connected is false.
C10_CloseClosesSocket ==
    (closes > 0 /\ ppc = "idle" /\ wpc = "dead") =>
        /\ ws = 0
        /\ ~connected
        /\ \A h \in 1..Len(sock) : sock[h] = "closed"

C12_ThreadsExit ==
    (closes > 0) ~> [](wpc = "dead" /\ rpc = "dead")

\* C12 witness: close() was called while the receiver was blocked in recv()
\* on the live socket and the worker had a message in hand; both threads
\* have ended.
C12_Witness ==
    /\ closes = 1
    /\ ppc = "idle"
    /\ wpc = "dead"
    /\ rpc = "dead"
    /\ sock = << "closed" >>
    /\ sends = << -1 >>

\* C13: in every state in which no thread is inside the handle lock,
\* connected true implies that a handle is installed and that its socket has
\* not been closed.
C13_FlagImpliesLiveHandle ==
    (connected /\ lock = "none") => (ws # 0 /\ sock[ws] # "closed")

\* C14: no thread calls send, ping or recv on a handle that is null or whose
\* socket was closed, and no socket is closed twice.
C14_NoUseAfterClose ==
    [][/\ (wpc = "send" /\ wpc' # wpc) => (ws # 0 /\ sock[ws] # "closed")
       /\ (wpc = "ka" /\ wpc' # wpc /\ KeepAliveDue) => sock[ws] # "closed"
       /\ (rpc = "loop" /\ rpc' = "recv") => sock[ws] # "closed"
       /\ (\E h \in 1..Len(sock) : sock[h] # "closed" /\ sock'[h] = "closed")
             => Cardinality({h \in 1..Len(sock) : sock'[h] # sock[h]}) = 1
       /\ (/\ ws # 0
           /\ \/ wpc = "tc_lock" /\ wpc' = "tc_ws"
              \/ wpc = "ka_close" /\ wpc' # wpc
              \/ wpc = "ex_close" /\ wpc' # wpc
              \/ ppc = "c_close" /\ ppc' # ppc) => sock[ws] # "closed"]_vars

\* C15: while both endpoints are unreachable, connected is false and no
\* socket exists in every state; the worker thread ends only on the stop event
\* of close(), and otherwise always has a step to take, cycling in the order
\* primary attempt, backup attempt, backoff sleep, loop head; and send_json
\* can always be called and return.
C15_OfflineKeepsCycling ==
    /\ [](~connected /\ ws = 0 /\ sock = << >>)
    /\ [](wpc = "dead" => stop_event)
    /\ [](wpc # "dead" => ENABLED (w_loop \/ w_try_fail \/ w_sleep \/ w_wake))
    /\ [](ppc = "idle" => ENABLED send_json(TRUE))
    /\ [][(<< wpc, wurl >>' # << wpc, wurl >> /\ wpc # "dead" /\ ~stop_event) =>
            /\ wpc = "loop" => (wpc' = "try" /\ wurl' = "primary")
            /\ (wpc = "try" /\ wurl = "primary") =>
                  (wpc' = "try" /\ wurl' = "backup")
            /\ (wpc = "try" /\ wurl = "backup") => wpc' = "sleep"
            /\ wpc = "sleep" => wpc' = "sleeping"
            /\ wpc = "sleeping" => wpc' = "loop"]_vars

\* C15 witness: three consecutive cycles have failed, the worker sleeps in
\* backoff, not connected, and the producer has filled the queue and gone on
\* submitting, with no close() called.
C15_Witness ==
    /\ closes = 0
    /\ fails = 3
    /\ wpc = "sleeping"
    /\ ~connected
    /\ Len(queue) = QueueMaxsize
    /\ submitted = QueueMaxsize + 1

\* C16: without close(), whenever the client is not connected (and the
\* budget of sockets of this specification is not used up), it is connected
\* again later, whatever failed before.
C16_EventuallyConnected ==
    (~connected /\ Len(sock) < VSockets) ~> connected

\* C16 witness: a link was established and lost, the send of message 1
\* failing on it, and the client is connected again on a second socket.
C16_Witness ==
    /\ connected
    /\ ws = 2
    /\ sock = << "closed", "open" >>
    /\ sends = << -1 >>
    /\ wpc = "get"

\* C17: conservation: after any sequence of update calls the two counters
\* add up to the sum of the elapsed deltas of those calls, which is the time
\* from the construction of the tracker to its latest update call.
C17_Conservation ==
    total_work_seconds + total_break_seconds = lastCall - created

\* C17 witness: three or more calls with every kind of sample (absent,
\* distracted, focused) and a long gap, both counters above zero.
C17_Witness ==
    /\ updates >= 3
    /\ total_work_seconds > 0
    /\ total_break_seconds > 0
    /\ total_work_seconds + total_break_seconds > TGap
    /\ \E i, j, k \in inputs :
          /\ ~i[1]
          /\ j[1] /\ j[2] < attention_threshold
          /\ k[1] /\ k[2] >= attention_threshold

\* C18: after every update the state is WORK exactly when the sample was
\* present with attention at or above the threshold, and BREAK otherwise; the
\* state is IDLE exactly while no update has been made.
C18_StateFollowsSample ==
    /\ (state = "IDLE") <=> (updates = 0)
    /\ updates > 0 =>
          /\ state \in {"WORK", "BREAK"}
          /\ (state = "WORK") <=>
                (lastInput[1] /\ lastInput[2] >= attention_threshold)

\* C18 witness: a present sample with attention equal to the threshold gave
\* WORK.
C18_Witness ==
    /\ updates > 0
    /\ attention_threshold = DefaultThreshold
    /\ lastInput = << TRUE, DefaultThreshold >>
    /\ state = "WORK"
    /\ total_work_seconds > 0

\* C19: an update credits its whole elapsed delta (the time since the
\* previous call, or since construction) to one counter and leaves the other
\* as it was: the work counter when the new state is WORK, the break counter
\* when it is BREAK; and it sets the last update time to the current time.
C19_WholeDeltaToOneCounter ==
    [][updates' # updates =>
         LET elapsed == wall - lastCall IN
         /\ last_update_time' = wall
         /\ state' \in {"WORK", "BREAK"}
         /\ state' = "WORK" =>
               /\ total_work_seconds' = total_work_seconds + elapsed
               /\ total_break_seconds' = total_break_seconds
         /\ state' = "BREAK" =>
               /\ total_break_seconds' = total_break_seconds + elapsed
               /\ total_work_seconds' = total_work_seconds]_vars

\* C19 witness: after one tick of work, a gap of TGap ticks went whole to the
\* break counter in one call, and the work counter stayed as it was.
C19_Witness ==
    /\ updates = 2
    /\ state = "BREAK"
    /\ total_work_seconds = 1
    /\ total_break_seconds = TGap

\* C20: while every sample so far was absent, the work counter is 0,
\* whatever the attention levels and the elapsed deltas.
C20_AbsentNeverWork ==
    (\A i \in inputs : ~i[1]) => total_work_seconds = 0

\* C20 witness: absent samples with attention above the threshold, after a
\* long gap, all credited to the break counter.
C20_Witness ==
    /\ updates >= 2
    /\ \A i \in inputs : ~i[1]
    /\ << FALSE, 100 >> \in inputs
    /\ attention_threshold = DefaultThreshold
    /\ total_break_seconds > TGap
    /\ total_work_seconds = 0

\* C21: while every sample so far was present with attention at or above the
\* threshold, the break counter is 0, whatever the elapsed deltas.
C21_FocusedNeverBreak ==
    (\A i \in inputs : i[1] /\ i[2] >= attention_threshold) =>
        total_break_seconds = 0

\* C21 witness: only focused samples, one of them exactly at the threshold,
\* over a long gap, all credited to the work counter.
C21_Witness ==
    /\ updates >= 2
    /\ \A i \in inputs : i[1] /\ i[2] >= attention_threshold
    /\ << TRUE, DefaultThreshold >> \in inputs
    /\ attention_threshold = DefaultThreshold
    /\ total_work_seconds > TGap
    /\ total_break_seconds = 0

\* C22: an update never decreases the work counter or the break counter, so
\* the whole seconds of work reported by get_total_work_seconds, which go
\* into working_duration_seconds of the outgoing messages, never decrease
\* from one update to the next and are never negative.
C22_CountersMonotonic ==
    [][updates' = updates + 1 =>
         /\ total_work_seconds' >= total_work_seconds
         /\ total_break_seconds' >= total_break_seconds
         /\ get_total_work_seconds' >= get_total_work_seconds
         /\ get_total_work_seconds' >= 0]_vars

\* C23: the accessors leave the tracker as it is; an update changes a
\* counter only by adding the elapsed delta to it, never by setting it to 0;
\* the counters change in no step other than an update or the construction
\* of a new tracker; the current session duration equals the total-work
\* accessor, which is the work counter in whole seconds, truncated; and a
\* tracker that has not been updated, the first or a newly constructed one,
\* has both counters 0 and state IDLE.
C23_ResetOnlyOnReconstruct ==
    /\ [](get_current_session_duration = get_total_work_seconds)
    /\ [](total_work_seconds >= 0 =>
            /\ get_total_work_seconds * TicksPerSecond <= total_work_seconds
            /\ total_work_seconds <
                  (get_total_work_seconds + 1) * TicksPerSecond)
    /\ [](updates = 0 =>
            /\ total_work_seconds = 0
            /\ total_break_seconds = 0
            /\ state = "IDLE")
    /\ [][/\ reading' # reading => UNCHANGED trackerVars
          /\ updates' = updates + 1 =>
                LET elapsed == wall - lastCall IN
                /\ total_work_seconds' \in
                      {total_work_seconds, total_work_seconds + elapsed}
                /\ total_break_seconds' \in
                      {total_break_seconds, total_break_seconds + elapsed}
          /\ (\/ total_work_seconds' # total_work_seconds
              \/ total_break_seconds' # total_break_seconds) =>
                (updates' = updates + 1 \/ built' = built + 1)
          /\ built' = built + 1 =>
                /\ total_work_seconds' = 0
                /\ total_break_seconds' = 0
                /\ state' = "IDLE"
                /\ attention_threshold' = attention_threshold]_vars

\* C23 witness: the first tracker had counted a second and a half of work,
\* its session duration was read as 1, and monitoring was restarted: the new
\* tracker has both counters 0 and state IDLE.
C23_Witness ==
    /\ built = 1
    /\ updates = 0
    /\ wall = 3
    /\ created = 3
    /\ reading = << "current_session_duration", 1 >>
    /\ total_work_seconds = 0
    /\ total_break_seconds = 0
    /\ state = "IDLE"

\* C24: a camera_control frame with action stop leaves camera_enabled false
\* and one with action start leaves it true, whatever it was before; the flag
\* changes in no other step, so it always shows the last command received;
\* and the worker's dequeue, keep-alive and send steps never wait for the
\* receiver.
C24_LastCommandWins ==
    /\ [](lastRecv = "stop" => ~camera_enabled)
    /\ [](lastRecv = "start" => camera_enabled)
    /\ [][camera_enabled' # camera_enabled
            => rpc = "recv" /\ lastRecv' \in {"stop", "start"}]_vars
    /\ [](wpc \in {"get", "ka", "send"}
            => ENABLED (w_get \/ w_keep_alive \/ w_send))

\* a stop command arrived on the live link and switched the camera off while
\* the worker holds a dequeued message it is about to send
C24_Witness ==
    /\ lastRecv = "stop"
    /\ ~camera_enabled
    /\ connected
    /\ wpc = "send"
    /\ msg # NoneMsg

\* C25: camera_enabled changes only in a receiver step that handled a
\* camera_control frame with action stop or start; a receiver step that
\* handled any other frame leaves camera_enabled, connected and ws as they
\* were and takes the receiver back to the head of its loop; no step of the
\* producer (send_json, connect, close) or of the worker changes the flag.
C25_OnlyCommandsChangeCamera ==
    /\ [][camera_enabled' # camera_enabled
            => /\ rpc = "recv"
               /\ rpc' = "loop"
               /\ lastRecv' \in {"stop", "start"}
               /\ UNCHANGED << ppc, wpc >>]_vars
    /\ [][(rpc = "recv" /\ rpc' # rpc
            /\ lastRecv' \in Inbound \ {"stop", "start"})
            => /\ UNCHANGED << camera_enabled, connected, ws >>
               /\ rpc' = "loop"]_vars

\* with the camera switched off by a command, the receiver ignored a frame
\* that is JSON but not an object and is blocked in recv() again, with
\* close() called in the meantime
C25_Witness ==
    /\ lastRecv = "nonobject"
    /\ ~camera_enabled
    /\ connected
    /\ rpc = "recv"
    /\ closes > 0

\* C26: every receiver step in which recv() failed (the link closed, reset,
\* timed out or otherwise broken) leaves connected false.
C26_ReadFailureDisconnects ==
    [][(rpc = "recv" /\ rpc' # rpc
        /\ lastRecv' \in {"closed", "reset", "timeout"})
        => ~connected']_vars

\* the same for the failures of a link that is down only: a recv() that
\* failed on a broken or closed socket leaves connected false
C26_DeadLinkDisconnects ==
    [][(rpc = "recv" /\ rpc' # rpc /\ ~Usable(rws)
        /\ lastRecv' \in {"closed", "reset"})
        => ~connected']_vars

\* C27: a send_json call whose payload cannot be serialized logs an error and
\* changes nothing else: the queue, the connection state and the handle, the
\* worker (a worker that has ended is not started again, the stop event is
\* not cleared) and the count of accepted messages stay as they were; what is
\* queued or sent is always one of the accepted messages.
C27_BadPayloadDropped ==
    /\ [][(sendLog' = "error" /\ sendLog # "error")
            => UNCHANGED << queue, submitted, ws, connected, active_url,
                            stop_event, workerVars, ppc, sends, sock >>]_vars
    /\ [](Queued \cup {Abs(sends[i]) : i \in 1..Len(sends)}
            \subseteq 1..submitted)

\* a payload that cannot be serialized is the latest submission (its error
\* is the latest log entry) on a client whose worker has ended after a
\* close(), with the accepted message still in the queue
C27_Witness ==
    /\ sendLog = "error"
    /\ closes > 0
    /\ ppc = "idle"
    /\ wpc = "dead"
    /\ stop_event
    /\ Queued # {}

\* C28: every send_json call that finds the queue full, and so drops its
\* message, leaves a warning as its log entry.
C28_DropLogsWarning ==
    [][(submitted' # submitted /\ QueueFull(queue))
        => sendLog' = "warning"]_vars

C29_NoAttemptAfterStop ==
    sinceStop.tries < 2

C30_Original ==
    [][(closes > 0 /\ ppc = "idle" /\ wpc = "dead")
        => /\ stop_event'
           /\ wpc' = "dead"
           /\ Len(sock') = Len(sock)
           /\ sends' = sends]_vars

\* C30: after close() has returned, a send_json call with a serializable
\* payload that finds the worker thread ended clears the stop event and
\* starts a new worker at the head of its loop with the base delay, and the
\* message is queued for it; a call that finds the old worker still alive
\* leaves the stop event and the worker as they are.
C30_SubmitRestartsWorker ==
    [][(closes > 0 /\ ppc = "idle" /\ submitted' # submitted)
        => /\ IF wpc = "dead"
              THEN /\ ~stop_event'
                   /\ wpc' = "loop"
                   /\ reconnect_delay' = base_reconnect_delay
              ELSE UNCHANGED << stop_event, wpc >>
           /\ ~QueueFull(queue) => queue' = Append(queue, submitted')]_vars

\* the message submitted after close() had returned was sent: the stop event
\* is cleared, a new worker connected and sent it
C30_Witness ==
    /\ closes > 0
    /\ ppc = "idle"
    /\ ~stop_event
    /\ connected
    /\ Usable(ws)
    /\ sends = << 1 >>

\* C31: in every state in which connected is false and no thread is inside
\* the handle lock, no handle is installed.
C31_NoHandleWhileDisconnected ==
    (~connected /\ lock = "none") => ws = 0

\* the same for the time the worker sleeps in backoff
C31_NoHandleInBackoff ==
    (wpc = "sleeping" /\ ~connected /\ lock = "none") => ws = 0

\* C32: whatever the producer calls (send_json, connect, close, in any order
\* and at any moment), at most one worker thread and at most one receiver
\* thread are alive; a thread is started only when none of its kind is alive,
\* and the queue is read by the one worker only.
C32_OneWorkerOneReceiver ==
    /\ [](threads.worker \in {0, 1} /\ threads.receiver \in {0, 1})
    /\ [](threads.worker = 0 <=> wpc = "dead")
    /\ [](threads.receiver = 0 <=> rpc = "dead")
    /\ [][threads'.worker > threads.worker => wpc = "dead"]_vars
    /\ [][threads'.receiver > threads.receiver => rpc = "dead"]_vars
    /\ [][Len(queue') < Len(queue) => (wpc = "get" /\ threads.worker = 1)]_vars

\* after a close() that ended the first worker, a later call started a
\* second one (the stop event is clear again), which is connected on a second
\* socket with one receiver alive beside it
C32_Witness ==
    /\ closes > 0
    /\ ~stop_event
    /\ threads = [worker |-> 1, receiver |-> 1]
    /\ Len(sock) = 2
    /\ connected
    /\ Usable(ws)

\* C33 as stated: the worker takes nothing off the queue while connected is
\* false.
C33_Original ==
    [][Len(queue') < Len(queue) => connected]_vars

\* C33: the queue changes only by a put at its end or by the worker's get at
\* its front, so no disconnect, reconnect or failure handler empties it; the
\* worker comes to its get only from the head of a loop iteration in which
\* it read connected as true, or from a connect cycle that succeeded, so it
\* dequeues nothing during the connect sequence and the backoff sleep; and
\* what it dequeues is the oldest message queued, ahead of every message
\* submitted later, in the order in which messages are passed to send.
C33_RetainedInOrder ==
    /\ [][queue' # queue
            => \/ \E m \in {NoneMsg, submitted'} : queue' = Append(queue, m)
               \/ wpc = "get" /\ queue' = Tail(queue)]_vars
    /\ [][(wpc' = "get" /\ wpc # "get")
            => \/ wpc = "loop" /\ connected /\ ~stop_event
               \/ wpc = "cycle_ok"]_vars
    /\ [][(Len(queue') < Len(queue) /\ msg' # NoneMsg)
            => \A m \in Queued : msg' <= m]_vars
    /\ [](\A i, j \in 1..Len(sends) :
             i < j => Abs(sends[i]) < Abs(sends[j]))

\* the link of the first socket was lost and the reconnect cycle failed: the
\* worker sleeps in backoff, disconnected, and the three messages submitted
\* are all in the queue, in order
C33_Witness ==
    /\ wpc = "sleeping"
    /\ ~connected
    /\ Len(sock) = 1
    /\ queue = << 1, 2, 3 >>
    /\ sends = << >>

====
